---- MODULE Spec2Model ----
(***************************************************************************)
(* The modal line editor of src/MiniOs/rootfs/bin/vi.c as a state machine. *)
(*                                                                         *)
(* A text is a sequence of one-character strings; a line is a text         *)
(* without line feed.  The array lines[512] is the sequence of its first   *)
(* line_count entries: no function of the editor reads an entry at or      *)
(* beyond line_count (line_length guards the index, and every key handler  *)
(* runs after render's clamp_cursor).  Indices are 0-based as in the C     *)
(* code; Line(s, i) is lines[i].                                           *)
(*                                                                         *)
(* The C functions mutate globals in sequence, so each is an operator from *)
(* a record of all globals to the record after the call; the field ret     *)
(* carries an int return value.  One action is one step of main's loop.    *)
(***************************************************************************)
EXTENDS Integers, Sequences, FiniteSets, TLC

(* ------------------------------ bounds -------------------------------- *)

\* Capacity of the line array (512 in the source), scaled for the check.
MAX_LINE_COUNT == 2

\* Printable keys are offered in INSERT mode while the document holds fewer
\* characters than this.
MaxChars == 2

(* --------------------------- program constants ------------------------- *)

MODE_NORMAL == 0
MODE_INSERT == 1
MODE_COMMAND == 2

\* update_screen_metrics: minimum screen size, rows kept for the status and
\* message lines, width of the line-number gutter, minimum content width.
MIN_SCREEN_ROWS == 4
MIN_SCREEN_COLS == 10
STATUS_ROWS == 2
GUTTER == 6
MIN_CONTENT_WIDTH == 8

LF == "\n"
SP == " "

\* Key codes: a printable key is its character; the others are the names
\* main resolves through keycode().
KEY_UP == "up"
KEY_DOWN == "down"
KEY_LEFT == "left"
KEY_RIGHT == "right"
KEY_DELETE == "delete"
KEY_ENTER == "enter"
KEY_ESCAPE == "esc"
KEY_BACKSPACE == "backspace"
KEY_HOME == "home"
KEY_END == "end"
KEY_PAGEUP == "pageup"
KEY_PAGEDOWN == "pagedown"
KEY_TAB == "tab"

SpecialKeys ==
    { KEY_UP, KEY_DOWN, KEY_LEFT, KEY_RIGHT, KEY_DELETE, KEY_ENTER, KEY_ESCAPE,
      KEY_BACKSPACE, KEY_HOME, KEY_END, KEY_PAGEUP, KEY_PAGEDOWN, KEY_TAB }

\* key >= 32: every key that is not one of the special keys is a character.
IsPrintable(key) == key \notin SpecialKeys

(* --------------------------- host string builtins ---------------------- *)

strlen(text) == Len(text)

strchar(text, index) == text[index + 1]

substr(text, start, length) == SubSeq(text, start + 1, start + length)

strcat(a, b) == a \o b

startswith(value, prefix) ==
    /\ Len(value) >= Len(prefix)
    /\ SubSeq(value, 1, Len(prefix)) = prefix

(* ------------------------------- trim ---------------------------------- *)

is_space(code) == code \in {" ", "\t", "\r", "\n"}

RECURSIVE trim_start(_, _)
trim_start(text, start) ==
    IF start < strlen(text) /\ is_space(strchar(text, start))
    THEN trim_start(text, start + 1)
    ELSE start

RECURSIVE trim_end(_, _, _)
trim_end(text, start, end) ==
    IF end >= start /\ is_space(strchar(text, end))
    THEN trim_end(text, start, end - 1)
    ELSE end

trim(text) ==
    LET start == trim_start(text, 0)
        end == trim_end(text, start, strlen(text) - 1)
    IN  IF end < start THEN <<>> ELSE substr(text, start, end - start + 1)

(* ------------------------------ storage -------------------------------- *)

\* "/home/user/vi.txt", the path main binds to an empty answer, written "v".
DefaultPath == <<"v">>
\* A path where the host holds no file and lets none be created.
MissingPath == <<"n">>
Paths == {DefaultPath, MissingPath}

NoFile == [present |-> FALSE, data |-> <<>>]
File(text) == [present |-> TRUE, data |-> text]

exists(s, path) == path \in DOMAIN s.storage /\ s.storage[path].present

readall(s, path) == s.storage[path].data

\* writeall either replaces the whole file or fails and leaves it alone;
\* ok is the outcome the host reports.
writeall(s, path, text, ok) ==
    IF ok
    THEN [s EXCEPT !.storage[path] = File(text), !.written = "ok"]
    ELSE [s EXCEPT !.written = "failed"]

(* --------------------------- document buffer --------------------------- *)

Line(s, index) == s.lines[index + 1]

SetLine(s, index, text) == [s EXCEPT !.lines[index + 1] = text]

set_status(s, text) == [s EXCEPT !.status_message = text]

reset_buffer(s) == [s EXCEPT !.lines = <<>>, !.line_count = 0]

\* ensure_min_line without its repair: a buffer of no line stays one.
ensure_min_line_absent(s) == s

ensure_min_line(s) ==
    IF s.line_count = 0
    THEN [s EXCEPT !.lines = << <<>> >>, !.line_count = 1]
    ELSE s

line_length(s, index) ==
    IF index < 0 \/ index >= s.line_count THEN 0 ELSE strlen(Line(s, index))

\* clamp_cursor sending the cursor home instead of clamping it.
clamp_cursor_home(s) == [s EXCEPT !.cursor_line = 0, !.cursor_col = 0]

clamp_cursor(s) ==
    IF s.line_count = 0
    THEN [s EXCEPT !.cursor_line = 0, !.cursor_col = 0]
    ELSE LET l1 == IF s.cursor_line < 0 THEN 0 ELSE s.cursor_line
             l2 == IF l1 >= s.line_count THEN s.line_count - 1 ELSE l1
             l3 == IF l2 < 0 THEN 0 ELSE l2
             len == line_length(s, l3)
             c1 == IF s.cursor_col < 0 THEN 0 ELSE s.cursor_col
             c2 == IF c1 > len THEN len ELSE c1
         IN  [s EXCEPT !.cursor_line = l3, !.cursor_col = c2]

RECURSIVE load_scan(_, _)
load_scan(text, pos) ==
    IF pos < strlen(text) /\ strchar(text, pos) # LF
    THEN load_scan(text, pos + 1)
    ELSE pos

RECURSIVE load_loop(_, _, _)
load_loop(s, text, start) ==
    IF start <= strlen(text) /\ s.line_count < MAX_LINE_COUNT
    THEN LET pos == load_scan(text, start)
             s1 == [s EXCEPT !.lines = Append(@, substr(text, start, pos - start)),
                             !.line_count = @ + 1]
         IN  IF pos >= strlen(text) THEN s1 ELSE load_loop(s1, text, pos + 1)
    ELSE s

load_document(s, text) ==
    LET s1 == ensure_min_line(load_loop(reset_buffer(s), text, 0))
    IN  [s1 EXCEPT !.dirty = 0, !.cursor_line = 0, !.cursor_col = 0,
                   !.viewport_top = 0, !.viewport_left = 0]

RECURSIVE join_loop(_, _, _)
join_loop(s, i, result) ==
    IF i < s.line_count
    THEN LET r1 == strcat(result, Line(s, i))
             r2 == IF i < s.line_count - 1 THEN strcat(r1, <<LF>>) ELSE r1
         IN  join_loop(s, i + 1, r2)
    ELSE result

\* join_lines ending every line, the last one too, with a line feed.
join_lines_trailing(s) ==
    IF s.line_count = 0 THEN <<>> ELSE strcat(join_loop(s, 0, <<>>), <<LF>>)

join_lines(s) == join_loop(s, 0, <<>>)

\* insert_line putting every line at the end, whatever the index.
insert_line_appends(s, index, text) ==
    IF s.line_count >= MAX_LINE_COUNT
    THEN [set_status(s, "buffer full") EXCEPT !.ret = 0]
    ELSE [s EXCEPT !.lines = Append(@, text),
                   !.line_count = @ + 1,
                   !.dirty = 1,
                   !.ret = 1]

\* insert_line without the test of the capacity.
insert_line_unbounded(s, index, text) ==
    LET i1 == IF index < 0 THEN 0 ELSE index
        i2 == IF i1 > s.line_count THEN s.line_count ELSE i1
    IN  [s EXCEPT !.lines = SubSeq(@, 1, i2) \o <<text>> \o SubSeq(@, i2 + 1, Len(@)),
                  !.line_count = @ + 1,
                  !.dirty = 1,
                  !.ret = 1]

insert_line(s, index, text) ==
    IF s.line_count >= MAX_LINE_COUNT
    THEN [set_status(s, "buffer full") EXCEPT !.ret = 0]
    ELSE LET i1 == IF index < 0 THEN 0 ELSE index
             i2 == IF i1 > s.line_count THEN s.line_count ELSE i1
         IN  [s EXCEPT !.lines = SubSeq(@, 1, i2) \o <<text>> \o SubSeq(@, i2 + 1, Len(@)),
                       !.line_count = @ + 1,
                       !.dirty = 1,
                       !.ret = 1]

\* delete_line bringing an index outside the document to the nearest line.
delete_line_clamped(s, index) ==
    LET i1 == IF index < 0 THEN 0 ELSE index
        i2 == IF i1 >= s.line_count THEN s.line_count - 1 ELSE i1
    IN  IF s.line_count = 1
        THEN [SetLine(s, 0, <<>>) EXCEPT !.cursor_line = 0, !.cursor_col = 0, !.dirty = 1]
        ELSE LET s1 == [s EXCEPT !.lines = SubSeq(@, 1, i2) \o SubSeq(@, i2 + 2, Len(@)),
                                 !.line_count = @ - 1]
                 s2 == IF s1.cursor_line >= s1.line_count
                       THEN [s1 EXCEPT !.cursor_line = s1.line_count - 1]
                       ELSE s1
             IN  [s2 EXCEPT !.dirty = 1]

delete_line(s, index) ==
    IF index < 0 \/ index >= s.line_count THEN s
    ELSE IF s.line_count = 1
    THEN [SetLine(s, 0, <<>>) EXCEPT !.cursor_line = 0, !.cursor_col = 0, !.dirty = 1]
    ELSE LET s1 == [s EXCEPT !.lines = SubSeq(@, 1, index) \o SubSeq(@, index + 2, Len(@)),
                             !.line_count = @ - 1]
             s2 == IF s1.cursor_line >= s1.line_count
                   THEN [s1 EXCEPT !.cursor_line = s1.line_count - 1]
                   ELSE s1
         IN  [s2 EXCEPT !.dirty = 1]

(* ---------------------------- character edits -------------------------- *)

insert_char(s, key) ==
    LET line == Line(s, s.cursor_line)
        len == line_length(s, s.cursor_line)
        s1 == IF s.cursor_col > len THEN [s EXCEPT !.cursor_col = len] ELSE s
        left == substr(line, 0, s1.cursor_col)
        right == substr(line, s1.cursor_col, len - s1.cursor_col)
        merged == strcat(strcat(left, <<key>>), right)
    IN  [SetLine(s1, s1.cursor_line, merged) EXCEPT !.cursor_col = @ + 1, !.dirty = 1]

\* insert_newline without the assignment of the left part: the line keeps
\* the text that also went to the new line.
insert_newline_whole(s) ==
    LET line == Line(s, s.cursor_line)
        len == line_length(s, s.cursor_line)
        s1 == IF s.cursor_col > len THEN [s EXCEPT !.cursor_col = len] ELSE s
        right == substr(line, s1.cursor_col, len - s1.cursor_col)
        s3 == insert_line(s1, s1.cursor_line + 1, right)
    IN  IF s3.ret # 0
        THEN [s3 EXCEPT !.cursor_line = @ + 1, !.cursor_col = 0]
        ELSE s3

insert_newline(s) ==
    LET line == Line(s, s.cursor_line)
        len == line_length(s, s.cursor_line)
        s1 == IF s.cursor_col > len THEN [s EXCEPT !.cursor_col = len] ELSE s
        left == substr(line, 0, s1.cursor_col)
        right == substr(line, s1.cursor_col, len - s1.cursor_col)
        s2 == SetLine(s1, s1.cursor_line, left)
        s3 == insert_line(s2, s2.cursor_line + 1, right)
    IN  IF s3.ret # 0
        THEN [s3 EXCEPT !.cursor_line = @ + 1, !.cursor_col = 0]
        ELSE s3

backspace_char(s) ==
    LET len == line_length(s, s.cursor_line)
        s1 == IF s.cursor_col > len THEN [s EXCEPT !.cursor_col = len] ELSE s
    IN  IF s1.cursor_col > 0
        THEN LET line == Line(s1, s1.cursor_line)
                 left == substr(line, 0, s1.cursor_col - 1)
                 right == substr(line, s1.cursor_col, len - s1.cursor_col)
             IN  [SetLine(s1, s1.cursor_line, strcat(left, right))
                     EXCEPT !.cursor_col = @ - 1, !.dirty = 1]
        ELSE IF s1.cursor_line = 0 THEN s1
        ELSE LET prev_len == line_length(s1, s1.cursor_line - 1)
                 s2 == SetLine(s1, s1.cursor_line - 1,
                               strcat(Line(s1, s1.cursor_line - 1), Line(s1, s1.cursor_line)))
                 s3 == delete_line(s2, s2.cursor_line)
             IN  [s3 EXCEPT !.cursor_line = @ - 1, !.cursor_col = prev_len]

\* delete_char_forward dropping the next line instead of appending it.
delete_char_forward_drops(s) ==
    LET line == Line(s, s.cursor_line)
        len == line_length(s, s.cursor_line)
        s1 == IF s.cursor_col > len THEN [s EXCEPT !.cursor_col = len] ELSE s
    IN  IF s1.cursor_col >= len
        THEN IF s1.cursor_line < s1.line_count - 1
             THEN [delete_line(s1, s1.cursor_line + 1) EXCEPT !.dirty = 1]
             ELSE s1
        ELSE LET left == substr(line, 0, s1.cursor_col)
                 right == substr(line, s1.cursor_col + 1, len - s1.cursor_col - 1)
             IN  [SetLine(s1, s1.cursor_line, strcat(left, right)) EXCEPT !.dirty = 1]

delete_char_forward(s) ==
    LET line == Line(s, s.cursor_line)
        len == line_length(s, s.cursor_line)
        s1 == IF s.cursor_col > len THEN [s EXCEPT !.cursor_col = len] ELSE s
    IN  IF len = 0 /\ s1.cursor_line < s1.line_count - 1
        THEN LET s2 == SetLine(s1, s1.cursor_line,
                               strcat(Line(s1, s1.cursor_line), Line(s1, s1.cursor_line + 1)))
             IN  [delete_line(s2, s2.cursor_line + 1) EXCEPT !.dirty = 1]
        ELSE IF s1.cursor_col >= len
        THEN IF s1.cursor_line < s1.line_count - 1
             THEN LET s2 == SetLine(s1, s1.cursor_line,
                                    strcat(line, Line(s1, s1.cursor_line + 1)))
                  IN  [delete_line(s2, s2.cursor_line + 1) EXCEPT !.dirty = 1]
             ELSE s1
        ELSE LET left == substr(line, 0, s1.cursor_col)
                 right == substr(line, s1.cursor_col + 1, len - s1.cursor_col - 1)
             IN  [SetLine(s1, s1.cursor_line, strcat(left, right)) EXCEPT !.dirty = 1]

\* delete_current_line leaving the column where it was.
delete_current_line_keeps_col(s) ==
    LET s1 == ensure_min_line(delete_line(s, s.cursor_line))
        s2 == IF s1.cursor_line >= s1.line_count
              THEN [s1 EXCEPT !.cursor_line = s1.line_count - 1]
              ELSE s1
    IN  set_status(s2, "line deleted")

delete_current_line(s) ==
    LET s1 == ensure_min_line(delete_line(s, s.cursor_line))
        s2 == IF s1.cursor_line >= s1.line_count
              THEN [s1 EXCEPT !.cursor_line = s1.line_count - 1]
              ELSE s1
    IN  set_status([s2 EXCEPT !.cursor_col = 0], "line deleted")

(* ------------------------------ movement ------------------------------- *)

\* move_left stopping at column 0 instead of going to the line above.
move_left_stops(s) ==
    IF s.cursor_col > 0 THEN [s EXCEPT !.cursor_col = @ - 1] ELSE s

move_left(s) ==
    IF s.cursor_col > 0 THEN [s EXCEPT !.cursor_col = @ - 1]
    ELSE IF s.cursor_line > 0
    THEN [s EXCEPT !.cursor_line = @ - 1,
                   !.cursor_col = line_length(s, s.cursor_line - 1)]
    ELSE s

move_right(s) ==
    LET len == line_length(s, s.cursor_line)
    IN  IF s.cursor_col < len THEN [s EXCEPT !.cursor_col = @ + 1]
        ELSE IF s.cursor_line < s.line_count - 1
        THEN [s EXCEPT !.cursor_line = @ + 1, !.cursor_col = 0]
        ELSE s

move_up(s) ==
    IF s.cursor_line > 0
    THEN LET len == line_length(s, s.cursor_line - 1)
         IN  [s EXCEPT !.cursor_line = @ - 1,
                       !.cursor_col = IF @ > len THEN len ELSE @]
    ELSE s

move_down(s) ==
    IF s.cursor_line < s.line_count - 1
    THEN LET len == line_length(s, s.cursor_line + 1)
         IN  [s EXCEPT !.cursor_line = @ + 1,
                       !.cursor_col = IF @ > len THEN len ELSE @]
    ELSE s

\* move_home counting as an edit.
move_home_dirties(s) == [s EXCEPT !.cursor_col = 0, !.dirty = 1]

move_home(s) == [s EXCEPT !.cursor_col = 0]

move_end(s) == [s EXCEPT !.cursor_col = line_length(s, s.cursor_line)]

page_up(s) ==
    LET step == IF s.body_rows < 1 THEN 1 ELSE s.body_rows
        l1 == s.cursor_line - step
        l2 == IF l1 < 0 THEN 0 ELSE l1
    IN  clamp_cursor([s EXCEPT !.cursor_line = l2])

page_down(s) ==
    LET step == IF s.body_rows < 1 THEN 1 ELSE s.body_rows
        l1 == s.cursor_line + step
        l2 == IF l1 >= s.line_count THEN s.line_count - 1 ELSE l1
    IN  clamp_cursor([s EXCEPT !.cursor_line = l2])

(* -------------------------------- modes -------------------------------- *)

enter_insert_mode(s) ==
    set_status([s EXCEPT !.mode = MODE_INSERT, !.pending_delete = 0], "-- INSERT --")

exit_insert_mode(s) ==
    LET s1 == [s EXCEPT !.mode = MODE_NORMAL, !.command_buffer = <<>>,
                        !.pending_delete = 0]
        s2 == IF s1.cursor_col > 0 THEN [s1 EXCEPT !.cursor_col = @ - 1] ELSE s1
    IN  set_status(clamp_cursor(s2), "")

start_command_mode(s) ==
    [s EXCEPT !.mode = MODE_COMMAND, !.command_buffer = <<>>, !.pending_delete = 0]

\* Escape in COMMAND mode also ending the session.
cancel_command_mode_quits(s) ==
    set_status([s EXCEPT !.mode = MODE_NORMAL, !.command_buffer = <<>>, !.running = 0],
               "command cancelled")

cancel_command_mode(s) ==
    set_status([s EXCEPT !.mode = MODE_NORMAL, !.command_buffer = <<>>],
               "command cancelled")

append_command_char(s, key) ==
    [s EXCEPT !.command_buffer = strcat(@, <<key>>)]

\* command_backspace leaving COMMAND mode when the line is already empty.
command_backspace_leaves(s) ==
    LET len == strlen(s.command_buffer)
    IN  IF len = 0 THEN [s EXCEPT !.mode = MODE_NORMAL]
        ELSE [s EXCEPT !.command_buffer = substr(@, 0, len - 1)]

command_backspace(s) ==
    LET len == strlen(s.command_buffer)
    IN  IF len = 0 THEN s
        ELSE [s EXCEPT !.command_buffer = substr(@, 0, len - 1)]

(* ----------------------------- persistence ----------------------------- *)

\* open_document keeping the buffer when the path does not exist.
open_document_stale(s, path) ==
    LET s1 == [s EXCEPT !.filename = path]
    IN  IF exists(s1, path)
        THEN set_status(load_document(s1, readall(s1, path)), "opened file")
        ELSE set_status(s1, "new file")

open_document(s, path) ==
    LET s1 == [s EXCEPT !.filename = path]
    IN  IF exists(s1, path)
        THEN set_status(load_document(s1, readall(s1, path)), "opened file")
        ELSE set_status(
                 [ensure_min_line(reset_buffer(s1))
                     EXCEPT !.dirty = 0, !.cursor_line = 0, !.cursor_col = 0,
                            !.viewport_top = 0, !.viewport_left = 0],
                 "new file")

save_to(s, path, ok) ==
    IF strlen(path) = 0
    THEN [set_status(s, "No file name") EXCEPT !.ret = 0]
    ELSE LET s1 == writeall(s, path, join_lines(s), ok)
         IN  [set_status([s1 EXCEPT !.dirty = 0], "file written") EXCEPT !.ret = 1]

(* ------------------------------- viewport ------------------------------ *)

update_screen_metrics(s, height, width) ==
    LET rows == IF height < MIN_SCREEN_ROWS THEN MIN_SCREEN_ROWS ELSE height
        cols == IF width < MIN_SCREEN_COLS THEN MIN_SCREEN_COLS ELSE width
        body == rows - STATUS_ROWS
        cw == cols - GUTTER
    IN  [s EXCEPT !.screen_rows = rows,
                  !.screen_cols = cols,
                  !.body_rows = IF body < 1 THEN 1 ELSE body,
                  !.content_width = IF cw < MIN_CONTENT_WIDTH THEN MIN_CONTENT_WIDTH ELSE cw]

\* adjust_viewport scrolling vertically only.
adjust_viewport_vertical(s) ==
    LET t1 == IF s.cursor_line < s.viewport_top THEN s.cursor_line ELSE s.viewport_top
        t2 == IF s.cursor_line >= t1 + s.body_rows
              THEN s.cursor_line - s.body_rows + 1 ELSE t1
    IN  [s EXCEPT !.viewport_top = t2]

\* adjust_viewport scrolling down one line short: the cursor ends just
\* below the window.
adjust_viewport_short(s) ==
    LET t1 == IF s.cursor_line < s.viewport_top THEN s.cursor_line ELSE s.viewport_top
        t2 == IF s.cursor_line >= t1 + s.body_rows
              THEN s.cursor_line - s.body_rows ELSE t1
        l1 == IF s.cursor_col < s.viewport_left THEN s.cursor_col ELSE s.viewport_left
        l2 == IF s.cursor_col >= l1 + s.content_width
              THEN s.cursor_col - s.content_width + 1 ELSE l1
    IN  [s EXCEPT !.viewport_top = t2, !.viewport_left = l2]

\* adjust_viewport bringing the cursor line to the top of the window in
\* every frame.
adjust_viewport_recentres(s) ==
    LET l1 == IF s.cursor_col < s.viewport_left THEN s.cursor_col ELSE s.viewport_left
        l2 == IF s.cursor_col >= l1 + s.content_width
              THEN s.cursor_col - s.content_width + 1 ELSE l1
        l3 == IF l2 < 0 THEN 0 ELSE l2
    IN  [s EXCEPT !.viewport_top = s.cursor_line, !.viewport_left = l3]

adjust_viewport(s) ==
    LET t1 == IF s.cursor_line < s.viewport_top THEN s.cursor_line ELSE s.viewport_top
        t2 == IF s.cursor_line >= t1 + s.body_rows
              THEN s.cursor_line - s.body_rows + 1 ELSE t1
        t3 == IF t2 < 0 THEN 0 ELSE t2
        t4 == IF t3 > s.line_count - 1 THEN s.line_count - 1 ELSE t3
        t5 == IF t4 < 0 THEN 0 ELSE t4
        l1 == IF s.cursor_col < s.viewport_left THEN s.cursor_col ELSE s.viewport_left
        l2 == IF s.cursor_col >= l1 + s.content_width
              THEN s.cursor_col - s.content_width + 1 ELSE l1
        l3 == IF l2 < 0 THEN 0 ELSE l2
    IN  [s EXCEPT !.viewport_top = t5, !.viewport_left = l3]

\* render's effect on the editor's state; what it prints is derived output.
render(s, height, width) ==
    adjust_viewport(update_screen_metrics(clamp_cursor(s), height, width))

(* --------------------------- command interpreter ----------------------- *)

\* The common tail without the clearing of the command line.
end_command_keeps_line(s) == [s EXCEPT !.mode = MODE_NORMAL]

end_command(s) == [s EXCEPT !.mode = MODE_NORMAL, !.command_buffer = <<>>]

\* The branches of execute_command, each without its common tail
\* (mode = MODE_NORMAL; command_buffer = ""), which end_command is.
\* The q branch without the test of dirty.
command_q_unguarded(s) == [s EXCEPT !.running = 0]

command_q(s) ==
    IF s.dirty # 0
    THEN set_status(s, "No write since last change (use :q!)")
    ELSE [s EXCEPT !.running = 0]

\* The q! branch with the test of dirty that the q branch has.
command_q_force_guarded(s) ==
    IF s.dirty # 0
    THEN set_status(s, "No write since last change (use :q!)")
    ELSE [s EXCEPT !.running = 0]

command_q_force(s) == [s EXCEPT !.running = 0]

\* The w branch reporting a save although no path is bound.
command_w_nameless(s, ok) ==
    IF strlen(s.filename) = 0
    THEN set_status([s EXCEPT !.dirty = 0], "file written")
    ELSE save_to(s, s.filename, ok)

command_w(s, ok) ==
    IF strlen(s.filename) = 0
    THEN set_status(s, "Specify file name with :w <path>")
    ELSE save_to(s, s.filename, ok)

command_wq(s, ok) ==
    LET target == s.filename
    IN  IF strlen(target) = 0
        THEN set_status(s, "Specify file name first")
        ELSE LET s1 == save_to(s, target, ok)
             IN  IF s1.ret # 0 THEN [s1 EXCEPT !.running = 0] ELSE s1

command_w_path(s, command, ok) ==
    LET path == trim(substr(command, 2, strlen(command) - 2))
    IN  IF strlen(path) > 0
        THEN LET s1 == [s EXCEPT !.filename = path]
             IN  save_to(s1, s1.filename, ok)
        ELSE set_status(s, "No file name provided")

command_e_path(s, command) ==
    LET path == trim(substr(command, 2, strlen(command) - 2))
    IN  IF strlen(path) > 0
        THEN open_document(s, path)
        ELSE set_status(s, "No file path provided")

\* An unknown command taken for a request to reload: the edit is forgotten.
command_unknown_reverts(s) == set_status([s EXCEPT !.dirty = 0], "Unknown command")

command_unknown(s) == set_status(s, "Unknown command")

execute_command(s, ok) ==
    LET command == trim(s.command_buffer)
    IN  IF strlen(command) = 0 THEN end_command(set_status(s, ""))
        ELSE IF command = <<"h", "e", "l", "p">>
        THEN end_command(set_status(s, "Commands: :w, :q, :wq, :e <file>, ESC to cancel"))
        ELSE IF command = <<"q">> THEN end_command(command_q(s))
        ELSE IF command = <<"q", "!">> THEN end_command(command_q_force(s))
        ELSE IF command = <<"w">> THEN end_command(command_w(s, ok))
        ELSE IF command = <<"w", "q">> \/ command = <<"w", "q", "!">>
        THEN end_command(command_wq(s, ok))
        ELSE IF startswith(command, <<"w", " ">>)
        THEN end_command(command_w_path(s, command, ok))
        ELSE IF startswith(command, <<"e", " ">>)
        THEN end_command(command_e_path(s, command))
        ELSE end_command(command_unknown(s))

(* ------------------------------ key handlers --------------------------- *)

normal_key_action(s, key) ==
    IF key = "h" \/ key = KEY_LEFT THEN move_left(s)
    ELSE IF key = "l" \/ key = KEY_RIGHT THEN move_right(s)
    ELSE IF key = "j" \/ key = KEY_DOWN THEN move_down(s)
    ELSE IF key = "k" \/ key = KEY_UP THEN move_up(s)
    ELSE IF key = "0" \/ key = KEY_HOME THEN move_home(s)
    ELSE IF key = "$" \/ key = KEY_END THEN move_end(s)
    ELSE IF key = KEY_PAGEUP THEN page_up(s)
    ELSE IF key = KEY_PAGEDOWN THEN page_down(s)
    ELSE IF key = "x" \/ key = KEY_DELETE THEN delete_char_forward(s)
    ELSE IF key = "d"
    THEN set_status([s EXCEPT !.pending_delete = 1], "d - waiting for next d")
    ELSE IF key = "i" THEN enter_insert_mode(s)
    ELSE IF key = "a" THEN enter_insert_mode(move_right(s))
    ELSE IF key = "o"
    THEN LET s1 == insert_line(s, s.cursor_line + 1, <<>>)
         IN  IF s1.ret # 0
             THEN enter_insert_mode([s1 EXCEPT !.cursor_line = @ + 1, !.cursor_col = 0])
             ELSE s1
    ELSE IF key = "O"
    THEN LET s1 == insert_line(s, s.cursor_line, <<>>)
         IN  IF s1.ret # 0
             THEN enter_insert_mode([s1 EXCEPT !.cursor_col = 0])
             ELSE s1
    ELSE IF key = ":" THEN start_command_mode(s)
    ELSE IF key = KEY_ESCAPE THEN set_status(s, "")
    ELSE s

\* handle_normal_key dropping the key that follows a d: it only disarms.
handle_normal_key_swallows(s, key) ==
    IF s.pending_delete # 0
    THEN IF key = "d"
         THEN [delete_current_line(s) EXCEPT !.pending_delete = 0]
         ELSE [s EXCEPT !.pending_delete = 0]
    ELSE normal_key_action(s, key)

\* handle_normal_key leaving the chord armed when another key follows the d.
handle_normal_key_keeps_chord(s, key) ==
    IF s.pending_delete # 0 /\ key = "d"
    THEN [delete_current_line(s) EXCEPT !.pending_delete = 0]
    ELSE normal_key_action(s, key)

handle_normal_key(s, key) ==
    IF s.pending_delete # 0
    THEN IF key = "d"
         THEN [delete_current_line(s) EXCEPT !.pending_delete = 0]
         ELSE normal_key_action([s EXCEPT !.pending_delete = 0], key)
    ELSE normal_key_action(s, key)

handle_insert_key(s, key) ==
    IF key = KEY_ESCAPE THEN exit_insert_mode(s)
    ELSE IF key = KEY_LEFT THEN move_left(s)
    ELSE IF key = KEY_RIGHT THEN move_right(s)
    ELSE IF key = KEY_UP THEN move_up(s)
    ELSE IF key = KEY_DOWN THEN move_down(s)
    ELSE IF key = KEY_HOME THEN move_home(s)
    ELSE IF key = KEY_END THEN move_end(s)
    ELSE IF key = KEY_PAGEUP THEN page_up(s)
    ELSE IF key = KEY_PAGEDOWN THEN page_down(s)
    ELSE IF key = KEY_ENTER THEN insert_newline(s)
    ELSE IF key = KEY_BACKSPACE THEN backspace_char(s)
    ELSE IF key = KEY_DELETE THEN delete_char_forward(s)
    ELSE IF key = KEY_TAB THEN insert_char(insert_char(s, " "), " ")
    ELSE IF IsPrintable(key) THEN insert_char(s, key)
    ELSE s

handle_command_key(s, key, ok) ==
    IF key = KEY_ESCAPE THEN cancel_command_mode(s)
    ELSE IF key = KEY_ENTER THEN execute_command(s, ok)
    ELSE IF key = KEY_BACKSPACE THEN command_backspace(s)
    ELSE IF IsPrintable(key) THEN append_command_char(s, key)
    ELSE s

\* One iteration of main's loop in which readkey returns key.
main_iteration(s, key, height, width, ok) ==
    LET s1 == render(s, height, width)
    IN  IF s1.mode = MODE_INSERT THEN handle_insert_key(s1, key)
        ELSE IF s1.mode = MODE_COMMAND THEN handle_command_key(s1, key, ok)
        ELSE handle_normal_key(s1, key)

\* main's loop while readkey returns the keys of the sequence keys.
RECURSIVE main_loop(_, _, _, _, _)
main_loop(s, keys, height, width, ok) ==
    IF s.running = 0 \/ keys = <<>> THEN s
    ELSE main_loop(main_iteration(s, Head(keys), height, width, ok),
                   Tail(keys), height, width, ok)

(* ------------------------------ the session ---------------------------- *)

VARIABLES
    lines, line_count, cursor_line, cursor_col, viewport_top, viewport_left,
    dirty, running, mode, screen_rows, screen_cols, body_rows, content_width,
    pending_delete, status_message, command_buffer, filename,
    storage,    \* the host's files: path -> [present, data]
    written,    \* what writeall reported in the last iteration: "none", "ok", "failed"
    text,       \* the text handed to load_document or to insert_line
    result,     \* LoadJoin only: what join_lines returned
    index,      \* Buffer only: the index handed to insert_line or delete_line
    phase       \* "session", or the position of one of the other drivers

vars ==
    << lines, line_count, cursor_line, cursor_col, viewport_top, viewport_left,
       dirty, running, mode, screen_rows, screen_cols, body_rows, content_width,
       pending_delete, status_message, command_buffer, filename,
       storage, written, text, result, index, phase >>

harness == << text, result, index, phase >>

\* The globals as one record, for the operators above.
St ==
    [ lines |-> lines, line_count |-> line_count,
      cursor_line |-> cursor_line, cursor_col |-> cursor_col,
      viewport_top |-> viewport_top, viewport_left |-> viewport_left,
      dirty |-> dirty, running |-> running, mode |-> mode,
      screen_rows |-> screen_rows, screen_cols |-> screen_cols,
      body_rows |-> body_rows, content_width |-> content_width,
      pending_delete |-> pending_delete, status_message |-> status_message,
      command_buffer |-> command_buffer, filename |-> filename,
      storage |-> storage, written |-> "none", ret |-> 0 ]

Becomes(r) ==
    /\ lines' = r.lines
    /\ line_count' = r.line_count
    /\ cursor_line' = r.cursor_line
    /\ cursor_col' = r.cursor_col
    /\ viewport_top' = r.viewport_top
    /\ viewport_left' = r.viewport_left
    /\ dirty' = r.dirty
    /\ running' = r.running
    /\ mode' = r.mode
    /\ screen_rows' = r.screen_rows
    /\ screen_cols' = r.screen_cols
    /\ body_rows' = r.body_rows
    /\ content_width' = r.content_width
    /\ pending_delete' = r.pending_delete
    /\ status_message' = r.status_message
    /\ command_buffer' = r.command_buffer
    /\ filename' = r.filename
    /\ storage' = r.storage
    /\ written' = r.written

\* The globals as their initializers leave them (lines 3-28), over a storage.
Globals(files) ==
    [ lines |-> <<>>, line_count |-> 0,
      cursor_line |-> 0, cursor_col |-> 0,
      viewport_top |-> 0, viewport_left |-> 0,
      dirty |-> 0, running |-> 1, mode |-> 0,
      screen_rows |-> 24, screen_cols |-> 80,
      body_rows |-> 22, content_width |-> 72,
      pending_delete |-> 0, status_message |-> "Press :help for commands",
      command_buffer |-> <<>>, filename |-> <<>>,
      storage |-> files, written |-> "none", ret |-> 0 ]

\* main up to its loop, without the default path: an empty answer is bound
\* as it is.
main_startup_unbound(files, response) ==
    LET s1 == ensure_min_line(reset_buffer(Globals(files)))
        s2 == [s1 EXCEPT !.filename = trim(response)]
    IN  ensure_min_line(open_document(s2, s2.filename))

\* main up to its loop: response is what the user typed at the path prompt.
main_startup(files, response) ==
    LET s1 == ensure_min_line(reset_buffer(Globals(files)))
        typed == trim(response)
        selected == IF strlen(typed) = 0 THEN DefaultPath ELSE typed
        s2 == [s1 EXCEPT !.filename = selected]
    IN  ensure_min_line(open_document(s2, s2.filename))

(* ------------------------------- inputs -------------------------------- *)

\* What the default path may hold before the session: nothing, an empty
\* file, two lines, and more lines than the buffer holds.
InitTexts ==
    { <<>>, <<SP, LF, SP>>, <<LF, SP, LF, LF, SP>> }

InitStorages ==
    { [path \in Paths |-> IF path = DefaultPath THEN f ELSE NoFile]
      : f \in {NoFile} \cup {File(t) : t \in InitTexts} }

\* What writeall may report for a path.
WriteOutcomes(path) == IF path = DefaultPath THEN BOOLEAN ELSE {FALSE}

\* Answers to the path prompt: nothing, blanks, a path between blanks.
Responses == { <<>>, <<SP>>, <<SP, "n", SP>> }

ConsoleHeights == {4}
ConsoleWidths == {10}

\* Characters typed in INSERT mode: the space bar.
InsertChars == {SP}

\* Command lines typed in COMMAND mode, and what can be on the line while
\* one of them is being typed.
Commands ==
    { <<"q">>, <<"q", "!">>, <<"w">>, <<"w", "q">>, <<"w", "q", "!">>,
      <<"w", " ", "n">>, <<"e", " ", "v">>, <<"e", " ", "n">>,
      <<"h", "e", "l", "p">> }

CommandPrefixes == UNION { {SubSeq(c, 1, n) : n \in 0..Len(c)} : c \in Commands }

NormalKeys ==
    SpecialKeys \cup {"h", "l", "j", "k", "0", "$", "x", "d", "i", "a", "o", "O", ":", "z"}

RECURSIVE CharCount(_)
CharCount(ls) == IF ls = <<>> THEN 0 ELSE Len(Head(ls)) + CharCount(Tail(ls))

InsertKeys ==
    (SpecialKeys \ {KEY_TAB})
        \cup (IF CharCount(lines) + 2 <= MaxChars THEN {KEY_TAB} ELSE {})
        \cup (IF CharCount(lines) + 1 <= MaxChars THEN InsertChars ELSE {})

\* In COMMAND mode the special keys other than these three are appended or
\* ignored depending on the host's key codes; they are not offered.
CommandKeys ==
    {KEY_ESCAPE, KEY_ENTER, KEY_BACKSPACE}
        \cup {c[Len(c)] : c \in {p \in CommandPrefixes :
                                    /\ Len(p) > 0
                                    /\ SubSeq(p, 1, Len(p) - 1) = command_buffer}}

(* ---------------------------- initial states --------------------------- *)

\* The globals hold the record s.
Is(s) ==
    /\ lines = s.lines
    /\ line_count = s.line_count
    /\ cursor_line = s.cursor_line
    /\ cursor_col = s.cursor_col
    /\ viewport_top = s.viewport_top
    /\ viewport_left = s.viewport_left
    /\ dirty = s.dirty
    /\ running = s.running
    /\ mode = s.mode
    /\ screen_rows = s.screen_rows
    /\ screen_cols = s.screen_cols
    /\ body_rows = s.body_rows
    /\ content_width = s.content_width
    /\ pending_delete = s.pending_delete
    /\ status_message = s.status_message
    /\ command_buffer = s.command_buffer
    /\ filename = s.filename
    /\ storage = s.storage
    /\ written = s.written

\* The state at the top of main's loop, before the first render.
Init ==
    /\ \E files \in InitStorages, response \in Responses :
           Is(main_startup(files, response))
    /\ text = <<>>
    /\ result = <<>>
    /\ index = 0
    /\ phase = "session"

(* -------------------------------- actions ------------------------------ *)

\* One action is one iteration of main's loop, taken while running is set:
\* render, readkey, and the handler of the active mode.  A state is the
\* state at the top of the loop: right after a handler returned, before the
\* next render.

\* The iteration in which readkey returns a negative code: render only.
NoKey ==
    /\ phase = "session"
    /\ running # 0
    /\ \E height \in ConsoleHeights, width \in ConsoleWidths :
           Becomes(render(St, height, width))
    /\ UNCHANGED harness

InsertKey ==
    /\ phase = "session"
    /\ running # 0
    /\ mode = MODE_INSERT
    /\ \E height \in ConsoleHeights, width \in ConsoleWidths, k \in InsertKeys :
           Becomes(handle_insert_key(render(St, height, width), k))
    /\ UNCHANGED harness

CommandKey ==
    /\ phase = "session"
    /\ running # 0
    /\ mode # MODE_INSERT
    /\ mode = MODE_COMMAND
    /\ \E height \in ConsoleHeights, width \in ConsoleWidths, k \in CommandKeys :
       \E ok \in (IF k = KEY_ENTER THEN WriteOutcomes(
                      IF startswith(trim(command_buffer), <<"w", " ">>)
                      THEN trim(substr(trim(command_buffer), 2, strlen(trim(command_buffer)) - 2))
                      ELSE filename)
                  ELSE {TRUE}) :
           Becomes(handle_command_key(render(St, height, width), k, ok))
    /\ UNCHANGED harness

NormalKey ==
    /\ phase = "session"
    /\ running # 0
    /\ mode # MODE_INSERT
    /\ mode # MODE_COMMAND
    /\ \E height \in ConsoleHeights, width \in ConsoleWidths, k \in NormalKeys :
           Becomes(handle_normal_key(render(St, height, width), k))
    /\ UNCHANGED harness

Next == NoKey \/ InsertKey \/ CommandKey \/ NormalKey

Spec == Init /\ [][Next]_vars

(* ----------------- the core without the startup prompt ----------------- *)

\* The globals after main's reset_buffer and ensure_min_line (lines 815-816),
\* before a path is asked for and bound: a fresh session with no bound path.
InitCore ==
    /\ \E files \in InitStorages : Is(ensure_min_line(reset_buffer(Globals(files))))
    /\ text = <<>>
    /\ result = <<>>
    /\ index = 0
    /\ phase = "session"

CoreSpec == InitCore /\ [][Next]_vars

(* --------------------------- load, then join --------------------------- *)

\* Longest text handed to load_document.
MaxTextLen == 5

Texts == UNION { [1..n -> {SP, LF}] : n \in 0..MaxTextLen }

InitLoadJoin ==
    /\ \E files \in InitStorages : Is(Globals(files))
    /\ text \in Texts
    /\ result = <<>>
    /\ index = 0
    /\ phase = "load"

LoadStep ==
    /\ phase = "load"
    /\ Becomes(load_document(St, text))
    /\ phase' = "join"
    /\ UNCHANGED << text, result, index >>

JoinStep ==
    /\ phase = "join"
    /\ result' = join_lines(St)
    /\ phase' = "done"
    /\ UNCHANGED << lines, line_count, cursor_line, cursor_col, viewport_top,
                    viewport_left, dirty, running, mode, screen_rows, screen_cols,
                    body_rows, content_width, pending_delete, status_message,
                    command_buffer, filename, storage, written, text, index >>

NextLoadJoin == LoadStep \/ JoinStep

LoadJoinSpec == InitLoadJoin /\ [][NextLoadJoin]_vars

(* --------------------------- the adjustment pass ----------------------- *)

\* Most lines of a document handed to the adjustment pass, and the length
\* of its lines when they are not empty.  The pass reads no capacity.
ViewLines == 11
ViewLineLen == 9

\* Sizes the console reports: below the minimum, and roomier.
ViewHeights == {3, 7}
ViewWidths == {9, 20}

RECURSIVE Blanks(_)
Blanks(n) == IF n = 0 THEN <<>> ELSE <<SP>> \o Blanks(n - 1)

\* A document, a cursor, a viewport left by earlier frames, and a mode, as
\* render finds them at the top of the loop.  cursor_line = -1 is what
\* backspace_char can leave behind.
InitView ==
    /\ \E n \in 1..ViewLines, len \in {0, ViewLineLen}, m \in {MODE_NORMAL, MODE_INSERT, MODE_COMMAND} :
       \E cl \in (-1)..(n - 1), cc \in {c \in {0, MIN_CONTENT_WIDTH, len} : c <= len},
          vt \in 0..(n - 1), vl \in {0, 1, len} :
           Is([Globals([path \in Paths |-> NoFile])
                  EXCEPT !.lines = [i \in 1..n |-> Blanks(len)],
                         !.line_count = n,
                         !.cursor_line = cl,
                         !.cursor_col = cc,
                         !.viewport_top = vt,
                         !.viewport_left = vl,
                         !.mode = m])
    /\ text = <<>>
    /\ result = <<>>
    /\ index = 0
    /\ phase = "adjust"

AdjustStep ==
    /\ phase = "adjust"
    /\ \E height \in ViewHeights, width \in ViewWidths :
           Becomes(render(St, height, width))
    /\ phase' = "adjusted"
    /\ UNCHANGED << text, result, index >>

ViewSpec == InitView /\ [][AdjustStep]_vars

(* ----------------------- the line array's two edits -------------------- *)

\* insert_line and delete_line take any int: indices run this far below 0
\* and this far beyond the capacity.
IndexSlack == 2

BufferIndices == (0 - IndexSlack)..(MAX_LINE_COUNT + IndexSlack)

\* The lines of the documents handed to the two functions, and the line
\* handed to insert_line, which is none of them.
BufferLines == { <<>>, <<SP>> }
NewLine == <<SP, SP>>

\* A document of one line or more, up to the capacity, with the cursor on
\* one of its lines, edited or not.
InitBuffer ==
    /\ \E n \in 1..MAX_LINE_COUNT :
       \E ls \in [1..n -> BufferLines], cl \in 0..(n - 1), d \in {0, 1} :
           Is([Globals([path \in Paths |-> NoFile])
                  EXCEPT !.lines = ls,
                         !.line_count = n,
                         !.cursor_line = cl,
                         !.dirty = d])
    /\ text = NewLine
    /\ result = <<>>
    /\ index \in BufferIndices
    /\ phase = "buffer"

InsertLineStep ==
    /\ phase = "buffer"
    /\ Becomes(insert_line(St, index, text))
    /\ phase' = "inserted"
    /\ UNCHANGED << text, result, index >>

DeleteLineStep ==
    /\ phase = "buffer"
    /\ Becomes(delete_line(St, index))
    /\ phase' = "deleted"
    /\ UNCHANGED << text, result, index >>

NextBuffer == InsertLineStep \/ DeleteLineStep

BufferSpec == InitBuffer /\ [][NextBuffer]_vars

(* ------------------------- steps, as the claims name them -------------- *)

\* The step is the iteration of main's loop in which readkey returns k.
InsertStep(k) ==
    /\ phase = "session" /\ running # 0 /\ mode = MODE_INSERT
    /\ \E height \in ConsoleHeights, width \in ConsoleWidths :
           Becomes(handle_insert_key(render(St, height, width), k))

NormalStep(k) ==
    /\ phase = "session" /\ running # 0 /\ mode = MODE_NORMAL
    /\ \E height \in ConsoleHeights, width \in ConsoleWidths :
           Becomes(handle_normal_key(render(St, height, width), k))

CommandStep(k) ==
    /\ phase = "session" /\ running # 0 /\ mode = MODE_COMMAND
    /\ \E height \in ConsoleHeights, width \in ConsoleWidths, ok \in BOOLEAN :
           Becomes(handle_command_key(render(St, height, width), k, ok))

\* Enter in COMMAND mode with the trimmed command line c.
ExecStep(c) == trim(command_buffer) = c /\ CommandStep(KEY_ENTER)

DocumentUnchanged == lines' = lines /\ line_count' = line_count

CursorUnchanged == cursor_line' = cursor_line /\ cursor_col' = cursor_col

(* -------------------------------- claims ------------------------------- *)

\* C1: in every state at the top of the loop, right after a key handler
\* returned and before the next render, 0 <= cursor_line < line_count and
\* 0 <= cursor_col <= length(lines[cursor_line]).
C1_CursorInBounds ==
    /\ 0 <= cursor_line
    /\ cursor_line < line_count
    /\ 0 <= cursor_col
    /\ cursor_col <= Len(lines[cursor_line + 1])

\* C2: line_count >= 1 in every state between key events, whatever the keys.
C2_AtLeastOneLine == line_count >= 1

\* A one-line document was emptied by dd, the line kept.
C2_Witness ==
    /\ status_message = "line deleted"
    /\ line_count = 1
    /\ lines = << <<>> >>
    /\ dirty = 1

\* The line feeds of a text: it splits into one more line than it has.
LineFeeds(t) == Cardinality({i \in 1..Len(t) : t[i] = LF})

\* C3: for a text T that splits on line feeds into at most MAX_LINE_COUNT
\* lines, join_lines() of the buffer load_document(T) built is T.
C3_RoundTrip ==
    (phase = "done" /\ LineFeeds(text) + 1 <= MAX_LINE_COUNT) => result = text

\* A text ending in a line feed came back as it was.
C3_Witness ==
    /\ phase = "done"
    /\ Len(text) >= 2
    /\ text[Len(text)] = LF
    /\ LineFeeds(text) + 1 <= MAX_LINE_COUNT
    /\ result = text

\* C4: a key event after which the lines differ from what they were leaves
\* dirty set.
C4_MutationSetsDirty ==
    [][(phase = "session" /\ ~DocumentUnchanged) => dirty' = 1]_vars

\* C5: with line_count = MAX_LINE_COUNT, Enter in INSERT mode and o and O in
\* NORMAL mode change neither line_count nor any line, and set a status.
C5_FullBufferUnchanged ==
    [][(/\ line_count = MAX_LINE_COUNT
        /\ \/ InsertStep(KEY_ENTER)
           \/ NormalStep("o")
           \/ NormalStep("O"))
       => (DocumentUnchanged /\ status_message' = "buffer full")]_vars

\* C6: q while dirty leaves document, cursor and dirty alone, the session
\* running, and sets a status; q! ends the session whatever dirty is; q
\* while not dirty ends it.
C6_QuitGuard ==
    [][/\ (ExecStep(<<"q">>) /\ dirty # 0)
           => /\ DocumentUnchanged
              /\ CursorUnchanged
              /\ dirty' = dirty
              /\ running' = 1
              /\ status_message' = "No write since last change (use :q!)"
       /\ ExecStep(<<"q", "!">>) => running' = 0
       /\ (ExecStep(<<"q">>) /\ dirty = 0) => running' = 0]_vars

\* q was refused: the edit is still unsaved and the session runs.
C6_Witness ==
    /\ status_message = "No write since last change (use :q!)"
    /\ dirty = 1
    /\ running = 1
    /\ mode = MODE_NORMAL

\* C7: wq and wq! end the session only in a step in which writeall
\* succeeded; after a failed write the session keeps running.
C7_QuitOnlyIfSaved ==
    [][((ExecStep(<<"w", "q">>) \/ ExecStep(<<"w", "q", "!">>)) /\ running' = 0)
       => written' = "ok"]_vars

\* C8: a save command clears dirty only when writeall succeeded; when it
\* reports failure dirty stays set.
C8_DirtyClearedOnlyIfSaved ==
    [][(/\ dirty = 1
        /\ \/ ExecStep(<<"w">>)
           \/ ExecStep(<<"w", "q">>)
           \/ ExecStep(<<"w", "q", "!">>)
           \/ (startswith(trim(command_buffer), <<"w", " ">>) /\ CommandStep(KEY_ENTER))
        /\ written' # "ok")
       => dirty' = 1]_vars

\* C9: with no path bound, w writes nothing, leaves document and dirty
\* alone, sets an error status, and the session keeps running in NORMAL mode.
C9_SaveWithoutName ==
    [][(ExecStep(<<"w">>) /\ filename = <<>>)
       => /\ storage' = storage
          /\ written' = "none"
          /\ DocumentUnchanged
          /\ dirty' = dirty
          /\ status_message' = "Specify file name with :w <path>"
          /\ running' = 1
          /\ mode' = MODE_NORMAL]_vars

\* w was refused for want of a path, with an edit pending.
C9_Witness ==
    /\ status_message = "Specify file name with :w <path>"
    /\ filename = <<>>
    /\ dirty = 1
    /\ running = 1
    /\ mode = MODE_NORMAL

\* C10: running is cleared only by Enter in COMMAND mode on q (dirty clear),
\* q!, wq or wq!.
C10_OnlyQuitCommandsStop ==
    [][(running # 0 /\ running' = 0)
       => /\ mode = MODE_COMMAND
          /\ CommandStep(KEY_ENTER)
          /\ \/ trim(command_buffer) = <<"q">> /\ dirty = 0
             \/ trim(command_buffer) \in { <<"q", "!">>, <<"w", "q">>, <<"w", "q", "!">> }]_vars

\* The session was ended by wq after a successful write.
C10_Witness ==
    /\ running = 0
    /\ written = "ok"
    /\ dirty = 0

\* C11 as stated: render leaves lines, line_count, the cursor, the viewport
\* and the mode as they were.
C11_RenderMutatesNothing ==
    [][AdjustStep
       => /\ DocumentUnchanged
          /\ CursorUnchanged
          /\ viewport_top' = viewport_top
          /\ viewport_left' = viewport_left
          /\ mode' = mode]_vars

\* C11, amended: render leaves lines, line_count and the mode as they were,
\* and a cursor that is within the document where it is; the viewport, and a
\* cursor outside the document, it does move.
C11_RenderKeepsDocument ==
    [][AdjustStep
       => /\ DocumentUnchanged
          /\ mode' = mode
          /\ (/\ 0 <= cursor_line /\ cursor_line < line_count
              /\ 0 <= cursor_col /\ cursor_col <= Len(lines[cursor_line + 1]))
             => CursorUnchanged]_vars

\* A frame was rendered in INSERT mode and the window had to scroll both ways.
C11_Witness ==
    /\ phase = "adjusted"
    /\ mode = MODE_INSERT
    /\ line_count = ViewLines
    /\ viewport_top > 0
    /\ viewport_left > 1

\* C12: after the adjustment pass the cursor is inside the window, and the
\* window's corner is inside the document: top <= cursor_line < top +
\* body_rows, left <= cursor_col < left + content_width, 0 <= top <=
\* line_count - 1, left >= 0.
C12_CursorInWindow ==
    phase = "adjusted"
    => /\ viewport_top <= cursor_line
       /\ cursor_line < viewport_top + body_rows
       /\ viewport_left <= cursor_col
       /\ cursor_col < viewport_left + content_width
       /\ 0 <= viewport_top
       /\ viewport_top <= line_count - 1
       /\ viewport_left >= 0

\* The console reported less than the minimum and the cursor sits on the
\* last row and the last column of the window.
C12_Witness ==
    /\ phase = "adjusted"
    /\ screen_rows = MIN_SCREEN_ROWS
    /\ screen_cols = MIN_SCREEN_COLS
    /\ viewport_top > 0
    /\ cursor_line = viewport_top + body_rows - 1
    /\ cursor_col = viewport_left + content_width - 1

\* C13: with c the cursor line the pass works on, c < top gives the new top
\* c, and c >= top + body_rows gives the new top c - body_rows + 1.
C13_VerticalScroll ==
    [][AdjustStep
       => /\ cursor_line' < viewport_top => viewport_top' = cursor_line'
          /\ cursor_line' >= viewport_top + body_rows'
                 => viewport_top' = cursor_line' - body_rows' + 1]_vars

\* body_rows = 5 and the cursor on line 10: the top is line 6.
C13_Witness ==
    /\ phase = "adjusted"
    /\ body_rows = 5
    /\ cursor_line = 10
    /\ viewport_top = 6

\* C14: the session starts in NORMAL mode, the mode is always one of the
\* three, and it changes only from NORMAL to INSERT on i, a, o, O, from
\* NORMAL to COMMAND on the colon, from INSERT to NORMAL on Escape, and from
\* COMMAND to NORMAL on Escape or Enter.
C14_ModeMachine ==
    /\ mode = MODE_NORMAL
    /\ [](mode \in {MODE_NORMAL, MODE_INSERT, MODE_COMMAND})
    /\ [][mode' # mode
          => \/ /\ mode = MODE_NORMAL /\ mode' = MODE_INSERT
                /\ \E k \in {"i", "a", "o", "O"} : NormalStep(k)
             \/ /\ mode = MODE_NORMAL /\ mode' = MODE_COMMAND
                /\ NormalStep(":")
             \/ /\ mode = MODE_INSERT /\ mode' = MODE_NORMAL
                /\ InsertStep(KEY_ESCAPE)
             \/ /\ mode = MODE_COMMAND /\ mode' = MODE_NORMAL
                /\ CommandStep(KEY_ESCAPE) \/ CommandStep(KEY_ENTER)]_vars

\* COMMAND mode was entered by the colon after an edit and an Escape.
C14_Witness ==
    /\ mode = MODE_COMMAND
    /\ line_count = 2
    /\ dirty = 1
    /\ status_message = ""

\* C15: whatever the command text, Enter in COMMAND mode ends with
\* mode = NORMAL and an empty command line.
C15_CommandEndsInNormal ==
    [][CommandStep(KEY_ENTER)
       => (mode' = MODE_NORMAL /\ command_buffer' = <<>>)]_vars

\* The help command was executed.
C15_Witness ==
    /\ status_message = "Commands: :w, :q, :wq, :e <file>, ESC to cancel"
    /\ mode = MODE_NORMAL
    /\ command_buffer = <<>>

\* A command text that is none of the recognized forms.
Unrecognized(c) ==
    /\ c # <<>>
    /\ c \notin { <<"h", "e", "l", "p">>, <<"q">>, <<"q", "!">>, <<"w">>,
                  <<"w", "q">>, <<"w", "q", "!">> }
    /\ ~startswith(c, <<"w", " ">>)
    /\ ~startswith(c, <<"e", " ">>)

\* C16: executing an unrecognized command sets the status, returns to NORMAL
\* mode and clears the command line; lines, line_count, cursor, viewport,
\* dirty, filename, running and storage stay as they were.
C16_UnknownCommand ==
    [][(Unrecognized(trim(command_buffer)) /\ CommandStep(KEY_ENTER))
       => /\ status_message' = "Unknown command"
          /\ mode' = MODE_NORMAL
          /\ command_buffer' = <<>>
          /\ DocumentUnchanged
          /\ CursorUnchanged
          /\ viewport_top' = viewport_top
          /\ viewport_left' = viewport_left
          /\ dirty' = dirty
          /\ filename' = filename
          /\ running' = running
          /\ storage' = storage
          /\ written' = "none"]_vars

\* An unknown command was refused with an edit pending.
C16_Witness ==
    /\ status_message = "Unknown command"
    /\ mode = MODE_NORMAL
    /\ dirty = 1
    /\ running = 1

\* The sequence ls without its entry of 0-based index i.
RemoveAt(ls, i) == SubSeq(ls, 1, i) \o SubSeq(ls, i + 2, Len(ls))

\* C17: the second of two consecutive d in NORMAL mode, on a document of two
\* lines or more, removes exactly the cursor line, leaves the cursor on
\* min(cursor_line, new line_count - 1), column 0, and sets dirty.
C17_ChordDeletesLine ==
    [][(pending_delete = 1 /\ line_count >= 2 /\ NormalStep("d"))
       => /\ lines' = RemoveAt(lines, cursor_line)
          /\ line_count' = line_count - 1
          /\ cursor_line' = IF cursor_line < line_count' THEN cursor_line
                                                         ELSE line_count' - 1
          /\ cursor_col' = 0
          /\ dirty' = 1
          /\ pending_delete' = 0]_vars

\* dd took one of two lines and left the one that holds a character.
C17_Witness ==
    /\ status_message = "line deleted"
    /\ line_count = 1
    /\ lines = << <<SP>> >>
    /\ cursor_line = 0
    /\ cursor_col = 0
    /\ dirty = 1

\* Every variable but the status message holds what the record r holds.
SameApartFromStatus(r) ==
    /\ lines' = r.lines
    /\ line_count' = r.line_count
    /\ cursor_line' = r.cursor_line
    /\ cursor_col' = r.cursor_col
    /\ viewport_top' = r.viewport_top
    /\ viewport_left' = r.viewport_left
    /\ dirty' = r.dirty
    /\ running' = r.running
    /\ mode' = r.mode
    /\ pending_delete' = r.pending_delete
    /\ command_buffer' = r.command_buffer
    /\ filename' = r.filename
    /\ storage' = r.storage

\* C18: a key k other than d that follows a d disarms the chord and leaves,
\* apart from the status message, the state k leaves when no d came before
\* it; a d that follows only arms the chord again.
C18_ChordCancelled ==
    [][/\ \A k \in NormalKeys \ {"d"} :
              (pending_delete = 1 /\ NormalStep(k))
              => /\ pending_delete' = 0
                 /\ \E height \in ConsoleHeights, width \in ConsoleWidths :
                        SameApartFromStatus(
                            handle_normal_key(
                                render([St EXCEPT !.pending_delete = 0], height, width), k))
       /\ (pending_delete = 0 /\ NormalStep("d"))
              => (DocumentUnchanged /\ pending_delete' = 1)]_vars

\* d, then j: the cursor went down a line, no line was deleted, and the
\* chord is disarmed.
C18_Witness ==
    /\ status_message = "d - waiting for next d"
    /\ pending_delete = 0
    /\ mode = MODE_NORMAL
    /\ cursor_line = 1
    /\ line_count = 2
    /\ dirty = 0

\* C19: Enter in INSERT mode below capacity, with the cursor at (c, col) when
\* the key is handled: line c becomes its first col characters, a new line
\* c + 1 holds the rest, the later lines move down by one, line_count grows
\* by one and the cursor is at (c + 1, 0).
C19_EnterSplitsLine ==
    [][(line_count < MAX_LINE_COUNT /\ InsertStep(KEY_ENTER))
       => \E height \in ConsoleHeights, width \in ConsoleWidths :
             LET s == render(St, height, width)
                 c == s.cursor_line
                 col == s.cursor_col
                 line == lines[c + 1]
             IN  /\ lines' = SubSeq(lines, 1, c)
                               \o << SubSeq(line, 1, col), SubSeq(line, col + 1, Len(line)) >>
                               \o SubSeq(lines, c + 2, Len(lines))
                 /\ line_count' = line_count + 1
                 /\ cursor_line' = c + 1
                 /\ cursor_col' = 0]_vars

\* In a new file, a line of two characters was split between them.
C19_Witness ==
    /\ ~storage[DefaultPath].present
    /\ filename = DefaultPath
    /\ mode = MODE_INSERT
    /\ lines = << <<SP>>, <<SP>> >>
    /\ cursor_line = 1
    /\ cursor_col = 0
    /\ status_message = "-- INSERT --"

\* The lines ls with a line feed between one and the next.
RECURSIVE Joined(_)
Joined(ls) ==
    IF Len(ls) = 0 THEN <<>>
    ELSE IF Len(ls) = 1 THEN ls[1]
    ELSE ls[1] \o <<LF>> \o Joined(Tail(ls))

\* The n lines ls are the load of the text data: the pieces between its
\* line feeds, the first MAX_LINE_COUNT of them when there are more.
IsLoadOf(data, ls, n) ==
    /\ n = Len(ls)
    /\ n >= 1
    /\ \A i \in 1..n : \A j \in 1..Len(ls[i]) : ls[i][j] # LF
    /\ IF LineFeeds(data) + 1 <= MAX_LINE_COUNT
       THEN Joined(ls) = data
       ELSE /\ n = MAX_LINE_COUNT
            /\ Len(data) > Len(Joined(ls))
            /\ SubSeq(data, 1, Len(Joined(ls)) + 1) = Joined(ls) \o <<LF>>

\* C20: e <path> leaves the load of the file's contents when the path
\* exists and one empty line when it does not, with filename = <path>, the
\* cursor at (0, 0), the viewport at (0, 0), dirty clear and NORMAL mode.
C20_EditReplacesDocument ==
    [][\A path \in Paths :
          ExecStep(<<"e", " ">> \o path)
          => /\ IF storage[path].present
                THEN IsLoadOf(storage[path].data, lines', line_count')
                ELSE lines' = << <<>> >> /\ line_count' = 1
             /\ filename' = path
             /\ cursor_line' = 0
             /\ cursor_col' = 0
             /\ viewport_top' = 0
             /\ viewport_left' = 0
             /\ dirty' = 0
             /\ mode' = MODE_NORMAL]_vars

\* Two empty lines were typed and written, and e read them back.
C20_Witness ==
    /\ status_message = "opened file"
    /\ filename = DefaultPath
    /\ storage[DefaultPath] = File(<<LF>>)
    /\ lines = << <<>>, <<>> >>
    /\ line_count = 2
    /\ cursor_line = 0
    /\ dirty = 0
    /\ mode = MODE_NORMAL

\* The sequence ls with the entry e put at 0-based index i.
InsertAt(ls, i, e) == SubSeq(ls, 1, i) \o <<e>> \o SubSeq(ls, i + 1, Len(ls))

\* C21 as stated: in NORMAL mode, with the cursor on line c, o puts a new
\* empty line at c + 1, moves the cursor to (c + 1, 0) and switches to INSERT
\* mode; O puts a new empty line at c, pushing the old line down, leaves the
\* cursor at (c, 0) and switches to INSERT mode.
C21_OpenLine ==
    [][/\ NormalStep("o")
          => \E height \in ConsoleHeights, width \in ConsoleWidths :
                LET c == render(St, height, width).cursor_line
                IN  /\ lines' = InsertAt(lines, c + 1, <<>>)
                    /\ line_count' = line_count + 1
                    /\ cursor_line' = c + 1
                    /\ cursor_col' = 0
                    /\ mode' = MODE_INSERT
       /\ NormalStep("O")
          => \E height \in ConsoleHeights, width \in ConsoleWidths :
                LET c == render(St, height, width).cursor_line
                IN  /\ lines' = InsertAt(lines, c, <<>>)
                    /\ line_count' = line_count + 1
                    /\ cursor_line' = c
                    /\ cursor_col' = 0
                    /\ mode' = MODE_INSERT]_vars

\* C21, amended: o and O do so while line_count < MAX_LINE_COUNT; in a full
\* buffer they insert nothing, report "buffer full" and stay in NORMAL mode.
C21_OpenLineBelowCapacity ==
    [][/\ (line_count < MAX_LINE_COUNT /\ NormalStep("o"))
          => \E height \in ConsoleHeights, width \in ConsoleWidths :
                LET c == render(St, height, width).cursor_line
                IN  /\ lines' = InsertAt(lines, c + 1, <<>>)
                    /\ line_count' = line_count + 1
                    /\ cursor_line' = c + 1
                    /\ cursor_col' = 0
                    /\ mode' = MODE_INSERT
       /\ (line_count < MAX_LINE_COUNT /\ NormalStep("O"))
          => \E height \in ConsoleHeights, width \in ConsoleWidths :
                LET c == render(St, height, width).cursor_line
                IN  /\ lines' = InsertAt(lines, c, <<>>)
                    /\ line_count' = line_count + 1
                    /\ cursor_line' = c
                    /\ cursor_col' = 0
                    /\ mode' = MODE_INSERT
       /\ (line_count = MAX_LINE_COUNT /\ (NormalStep("o") \/ NormalStep("O")))
          => /\ DocumentUnchanged
             /\ status_message' = "buffer full"
             /\ mode' = MODE_NORMAL]_vars

\* In a new file a character was typed, and O opened a line above it: the
\* cursor is on the new line, in INSERT mode.
C21_Witness ==
    /\ ~storage[DefaultPath].present
    /\ filename = DefaultPath
    /\ mode = MODE_INSERT
    /\ status_message = "-- INSERT --"
    /\ lines = << <<>>, <<SP>> >>
    /\ cursor_line = 0
    /\ cursor_col = 0
    /\ dirty = 1

\* The int i brought into lo..hi.
Clamp(i, lo, hi) == IF i < lo THEN lo ELSE IF i > hi THEN hi ELSE i

C23_BackspaceMerges ==
    [][InsertStep(KEY_BACKSPACE)
       => \E height \in ConsoleHeights, width \in ConsoleWidths :
             LET s == render(St, height, width)
                 c == s.cursor_line
                 col == s.cursor_col
                 line == lines[c + 1]
             IN  IF col > 0
                 THEN /\ lines' = [lines EXCEPT ![c + 1] =
                                      SubSeq(line, 1, col - 1) \o SubSeq(line, col + 1, Len(line))]
                      /\ line_count' = line_count
                      /\ cursor_line' = c
                      /\ cursor_col' = col - 1
                 ELSE IF c > 0
                 THEN /\ lines' = SubSeq(lines, 1, c - 1) \o << lines[c] \o line >>
                                      \o SubSeq(lines, c + 2, Len(lines))
                      /\ line_count' = line_count - 1
                      /\ cursor_line' = c - 1
                      /\ cursor_col' = Len(lines[c])
                 ELSE /\ DocumentUnchanged
                      /\ cursor_line' = 0
                      /\ cursor_col' = 0]_vars

\* C24: forward delete (x and delete in NORMAL mode, delete in INSERT mode)
\* with the cursor at (c, col) when the key is handled: for col < length the
\* character at col goes; at the end of a line that is not the last, empty or
\* not, line c becomes line c followed by line c + 1 and line c + 1 is
\* removed; at the end of the last line nothing changes, dirty included.  The
\* cursor stays at (c, col).
C24_ForwardDelete ==
    [][(NormalStep("x") \/ NormalStep(KEY_DELETE) \/ InsertStep(KEY_DELETE))
       => \E height \in ConsoleHeights, width \in ConsoleWidths :
             LET s == render(St, height, width)
                 c == s.cursor_line
                 col == s.cursor_col
                 line == lines[c + 1]
             IN  /\ cursor_line' = c
                 /\ cursor_col' = col
                 /\ IF col < Len(line)
                    THEN /\ lines' = [lines EXCEPT ![c + 1] =
                                         SubSeq(line, 1, col) \o SubSeq(line, col + 2, Len(line))]
                         /\ line_count' = line_count
                    ELSE IF c < line_count - 1
                    THEN /\ lines' = SubSeq(lines, 1, c) \o << line \o lines[c + 2] >>
                                         \o SubSeq(lines, c + 3, Len(lines))
                         /\ line_count' = line_count - 1
                    ELSE /\ DocumentUnchanged
                         /\ dirty' = dirty]_vars

\* A file of two lines of one character was opened, and x at the end of the
\* first line brought the second up: one line of two characters.
C24_Witness ==
    /\ status_message = "opened file"
    /\ storage[DefaultPath] = File(<<SP, LF, SP>>)
    /\ mode = MODE_NORMAL
    /\ lines = << <<SP, SP>> >>
    /\ line_count = 1
    /\ cursor_line = 0
    /\ cursor_col = 1
    /\ dirty = 1

\* C25: with the cursor at (c, col) when the key is handled, moving left at
\* column 0 of a line c > 0 goes to the end of line c - 1 and at (0, 0) stays;
\* moving right at the end of a line c < line_count - 1 goes to (c + 1, 0) and
\* at the end of the last line stays; elsewhere the column moves by one.
C25_HorizontalWrap ==
    [][/\ (NormalStep("h") \/ NormalStep(KEY_LEFT) \/ InsertStep(KEY_LEFT))
          => \E height \in ConsoleHeights, width \in ConsoleWidths :
                LET s == render(St, height, width)
                    c == s.cursor_line
                    col == s.cursor_col
                IN  IF col > 0
                    THEN cursor_line' = c /\ cursor_col' = col - 1
                    ELSE IF c > 0
                    THEN cursor_line' = c - 1 /\ cursor_col' = Len(lines[c])
                    ELSE cursor_line' = 0 /\ cursor_col' = 0
       /\ (NormalStep("l") \/ NormalStep(KEY_RIGHT) \/ InsertStep(KEY_RIGHT))
          => \E height \in ConsoleHeights, width \in ConsoleWidths :
                LET s == render(St, height, width)
                    c == s.cursor_line
                    col == s.cursor_col
                IN  IF col < Len(lines[c + 1])
                    THEN cursor_line' = c /\ cursor_col' = col + 1
                    ELSE IF c < line_count - 1
                    THEN cursor_line' = c + 1 /\ cursor_col' = 0
                    ELSE cursor_line' = c /\ cursor_col' = col]_vars

\* In a file of two lines of one character, untouched, the cursor stands in
\* INSERT mode at the end of the first line: where the move left from the
\* start of the second line puts it.
C25_Witness ==
    /\ storage[DefaultPath] = File(<<SP, LF, SP>>)
    /\ status_message = "-- INSERT --"
    /\ mode = MODE_INSERT
    /\ lines = << <<SP>>, <<SP>> >>
    /\ cursor_line = 0
    /\ cursor_col = 1
    /\ dirty = 0

\* C26: when the cursor adjust_viewport finds lies inside the window it
\* finds (top <= cursor_line < top + body_rows and left <= cursor_col < left
\* + content_width, with the cursor as clamp_cursor and the window size as
\* update_screen_metrics left them), viewport_top and viewport_left stay as
\* they were.
C26_MinimalScroll ==
    [][(/\ AdjustStep
        /\ viewport_top <= cursor_line'
        /\ cursor_line' < viewport_top + body_rows'
        /\ viewport_left <= cursor_col'
        /\ cursor_col' < viewport_left + content_width')
       => /\ viewport_top' = viewport_top
          /\ viewport_left' = viewport_left]_vars

\* After the pass the cursor is strictly inside a window that is scrolled
\* both ways: no edge of the window was brought to the cursor, so the window
\* is where the earlier frames left it.
C26_Witness ==
    /\ phase = "adjusted"
    /\ viewport_top > 0
    /\ viewport_top < cursor_line
    /\ cursor_line < viewport_top + body_rows - 1
    /\ viewport_left > 0
    /\ viewport_left < cursor_col
    /\ cursor_col < viewport_left + content_width - 1

\* C27: pending_delete = 1 only in NORMAL mode; it becomes or stays 1 only
\* in the iteration that handles a d while it was 0, or in an iteration in
\* which no key arrived while it was 1, so the last key handled was d; and
\* any key handled while it is 1 leaves it 0.
C27_ChordBetweenKeys ==
    /\ [](pending_delete \in {0, 1})
    /\ [](pending_delete = 1 => mode = MODE_NORMAL)
    /\ [][pending_delete' = 1
          => \/ pending_delete = 0 /\ NormalStep("d")
             \/ pending_delete = 1 /\ NoKey]_vars
    /\ [][(pending_delete = 1 /\ \E k \in NormalKeys : NormalStep(k))
          => pending_delete' = 0]_vars

\* A d armed the chord on an edited document.
C27_Witness ==
    /\ pending_delete = 1
    /\ status_message = "d - waiting for next d"
    /\ mode = MODE_NORMAL
    /\ dirty = 1
    /\ line_count = 2

\* The keys that only move the cursor: in NORMAL mode, and in both modes.
NormalMoveKeys == {"h", "l", "j", "k", "0", "$"}

MoveKeys ==
    {KEY_LEFT, KEY_RIGHT, KEY_UP, KEY_DOWN, KEY_HOME, KEY_END, KEY_PAGEUP, KEY_PAGEDOWN}

\* C28: h, l, j, k, 0, $ in NORMAL mode, and the arrows, home, end, page up
\* and page down in NORMAL and in INSERT mode, leave lines, line_count,
\* dirty, filename, mode and running as they were.
C28_NavigationReadOnly ==
    [][(\/ \E k \in NormalMoveKeys \cup MoveKeys : NormalStep(k)
        \/ \E k \in MoveKeys : InsertStep(k))
       => /\ DocumentUnchanged
          /\ dirty' = dirty
          /\ filename' = filename
          /\ mode' = mode
          /\ running' = running]_vars

\* A file of two lines was opened and INSERT mode entered; the cursor was
\* taken to the end of the second line and nothing was edited.
C28_Witness ==
    /\ storage[DefaultPath] = File(<<SP, LF, SP>>)
    /\ status_message = "-- INSERT --"
    /\ mode = MODE_INSERT
    /\ lines = << <<SP>>, <<SP>> >>
    /\ cursor_line = 1
    /\ cursor_col = 1
    /\ dirty = 0
    /\ running = 1

\* Escape, colon, q, !, Enter.
QuitKeys == << KEY_ESCAPE, ":", "q", "!", KEY_ENTER >>

\* C29: from every state in which the session runs, whatever the mode, dirty,
\* the chord and the command line, the keys Escape, colon, q, !, Enter end
\* with running = 0.
C29_CanAlwaysQuit ==
    (phase = "session" /\ running # 0)
    => \A height \in ConsoleHeights, width \in ConsoleWidths, ok \in BOOLEAN :
           main_loop(St, QuitKeys, height, width, ok).running = 0

\* The session was ended with an edit unsaved, and the last status is that
\* of the Escape that cancelled a command line: only q! ends a session that
\* is dirty.
C29_Witness ==
    /\ running = 0
    /\ dirty = 1
    /\ status_message = "command cancelled"
    /\ mode = MODE_NORMAL
    /\ command_buffer = <<>>

\* C30: line_count never exceeds MAX_LINE_COUNT, whatever the keys and
\* whatever text was loaded.
C30_WithinCapacity == line_count <= MAX_LINE_COUNT

\* A file of more lines than the buffer holds was opened, the buffer took
\* the first MAX_LINE_COUNT of them, and a line more was refused.
C30_Witness ==
    /\ LineFeeds(storage[DefaultPath].data) + 1 > MAX_LINE_COUNT
    /\ filename = DefaultPath
    /\ line_count = MAX_LINE_COUNT
    /\ status_message = "buffer full"
    /\ dirty = 0

\* C31: a step taken while dirty is set that drops the document (the session
\* ends) or replaces it (other lines, dirty cleared) without a write to
\* storage having succeeded in that step is the execution of q!.
C31_OnlyForcedQuitDiscards ==
    [][(/\ phase = "session"
        /\ dirty = 1
        /\ written' # "ok"
        /\ \/ running' = 0
           \/ lines' # lines /\ dirty' = 0)
       => ExecStep(<<"q", "!">>)]_vars

\* The three missing-filename messages of w, wq and save_to.
MissingNameMessages ==
    { "Specify file name with :w <path>", "Specify file name first", "No file name" }

\* C32: from the first iteration of the loop on filename is never empty, and
\* no missing-filename branch of w, wq or save_to has been taken.
C32_AlwaysBound ==
    /\ filename # <<>>
    /\ filename = trim(filename)
    /\ status_message \notin MissingNameMessages

\* The prompt was answered with nothing but blanks or nothing at all, the
\* default path was bound, and w wrote the edited document to it.
C32_Witness ==
    /\ filename = DefaultPath
    /\ status_message = "file written"
    /\ written = "ok"
    /\ storage[DefaultPath] = File(<<SP, LF>>)
    /\ lines = << <<SP>>, <<>> >>
    /\ dirty = 0
    /\ running = 1

====
